---- MODULE Spec2Model ----
(***************************************************************************)
(* Model of the document ingestion pipeline and of the cached search of    *)
(* the RAG starter: the intake service (src/api/main.py) and the document  *)
(* worker (src/processor/processor.py).                                    *)
(*                                                                         *)
(* One action is one run of a handler between two suspension points        *)
(* (await): the synchronous calls in between (boto3, redis, json) cannot   *)
(* interleave with another coroutine of the same process.                  *)
(***************************************************************************)
EXTENDS Integers, Sequences, FiniteSets, TLC

\* ------------------------------------------------------------------ bounds
\* Number of uploads (each gets a fresh uuid4, modelled as 1..MaxDocs).
MaxDocs == 2
\* Number of worker processes subscribed to document.process.
NumWorkers == 2
\* Number of infrastructure faults the environment injects in one behaviour.
MaxFaults == 2
\* Number of search requests.
MaxSearches == 2
\* Clock ticks per TTL, and how many ticks the clock makes.
TicksPerTTL == 1
MaxTicks == 1

\* Number of tasks another client of the channel publishes.
MaxTasks == 2

\* ------------------------------------------------------- program constants
\* for attempt in range(5): nats.connect
NatsAttempts == 5
\* for attempt in range(10): asyncpg.create_pool
DbAttempts == 10
\* for attempt in range(5): redis ping
RedisAttempts == 5
\* text = content.decode(...)[:500]
ExtractLimit == 500
\* text[:200] stored as text_preview
PreviewLimit == 200

Docs == 1..MaxDocs
Workers == 1..NumWorkers

\* A document body is a run of one character: <<char, length>>.  Slicing a
\* run keeps the character and cuts the length, as Python's s[:k] does.
Contents == { <<"x", 600>> }
Filenames == { "report.pdf" }

\* no row with this id in the table / no object under this key
NoRow == [absent |-> TRUE]
NoObj == <<>>
Null == "NULL"

Min(a, b) == IF a <= b THEN a ELSE b

\* s[:k] on a run
Slice(run, k) == <<run[1], Min(run[2], k)>>

\* content.decode('utf-8', errors='ignore')[:500]
ExtractText(content) == Slice(content, ExtractLimit)

\* text[:200]
PreviewWhole(text) == text
Preview(text) == Slice(text, PreviewLimit)

\* model.encode(text).tolist(): the embedding is a function of the text
Embed(text) == <<"vec", text>>

\* the point of the PUT /collections/documents/points request
Point(d, text, filename) ==
    [id |-> d, vector |-> Embed(text),
     payload |-> [text |-> text, filename |-> filename, doc_id |-> d]]

\* json.dumps({"id": doc_id, "filename": file.filename}).encode()
TaskPayload(d, filename) == [id |-> d, filename |-> filename]

\* The failures the history records per document: of the three steps of the
\* upload, and of the pipeline at the fetch or later (an exception of
\* get_object, of the PUT or of the UPDATE).
FaultKinds == {"put", "insert", "publish", "pipeline"}

VARIABLES
    objects,     \* Object Store: doc id -> content, or NoObj
    rows,        \* Metadata Store, table documents: doc id -> row, or NoRow
    inbox,       \* Message Channel: worker -> messages pending for its callback
    vindex,      \* Vector Index: doc id -> the points stored under that id
    upl,         \* upload_document requests, one per generated id
    nextId,      \* the next uuid4 to be generated
    wk,          \* process_document of each worker: position and locals
    published,   \* history: ids for which nc.publish returned
    deliveredTo, \* history: doc id -> the workers whose callback got its task
    okRuns,      \* history: doc id -> pipeline runs that upserted and committed
    fault,       \* history: doc id -> the faults that hit its upload or pipeline
    nfaults,     \* number of faults injected so far
    cache,       \* Response Cache (Redis): query -> entry, or NoEntry
    now,         \* the clock, in seconds
    indexUp,     \* the Vector Index is reachable
    cacheUp,     \* the Response Cache is reachable
    sr,          \* search requests: position, locals and response
    proc,        \* worker process: "boot", "connect", "serving" or "fatal"
    model,       \* worker process: the global model (0 is None, else the load)
    loads,       \* history: worker -> times SentenceTransformer was constructed
    conns,       \* worker -> Metadata Store connections it holds open
    bad,         \* history: worker -> malformed messages its callback raised on
    afterBad,    \* history: ids committed by a worker after a malformed message
    ntasks,      \* number of tasks published by another client of the channel
    noName,      \* history: ids of the tasks published without a filename
    boot,        \* intake startup(): position, attempt, connections made
    deps,        \* dependency -> it is up
    st           \* status(): position, report, and what each probe met

ingestVars == <<objects, rows, inbox, vindex, upl, nextId, wk, published,
                deliveredTo, okRuns, fault, nfaults>>

\* what the ingestion never touches / what the search never touches
searchOnly == <<cache, now, indexUp, cacheUp, sr>>
ingestOnly == <<objects, rows, inbox, upl, nextId, wk, published, deliveredTo,
                okRuns, fault, nfaults>>

\* the worker process, the foreign tasks, the intake startup, the health check
procVars == <<proc, model, loads>>
taskVars == <<conns, bad, afterBad, ntasks, noName>>
bootVars == <<boot>>
statusVars == <<deps, st>>

\* what neither the upload nor the search touches
aux == <<procVars, taskVars, bootVars, statusVars>>

vars == <<ingestVars, searchOnly, aux>>

IdleUpload == [pc |-> "none", filename |-> "", content |-> <<"", 0>>]
IdleWorker == [pc |-> "idle", msg |-> TaskPayload(0, ""), text |-> <<"", 0>>,
               conn |-> FALSE, upserted |-> FALSE]

InitIngest ==
    /\ objects = [d \in Docs |-> NoObj]
    /\ rows = [d \in Docs |-> NoRow]
    /\ inbox = [w \in Workers |-> <<>>]
    /\ vindex = [d \in Docs |-> <<>>]
    /\ upl = [d \in Docs |-> IdleUpload]
    /\ nextId = 1
    /\ wk = [w \in Workers |-> IdleWorker]
    /\ published = {}
    /\ deliveredTo = [d \in Docs |-> {}]
    /\ okRuns = [d \in Docs |-> 0]
    /\ fault = [d \in Docs |-> {}]
    /\ nfaults = 0

\* The environment may fail a call only while its fault budget lasts.
MayFail(ok) == ok \/ nfaults < MaxFaults

Injected(ok) == IF ok THEN nfaults ELSE nfaults + 1

Record(d, ok, kind) ==
    IF ok THEN fault ELSE [fault EXCEPT ![d] = @ \cup {kind}]

\* ------------------------------------------------------------ intake: upload

\* s3.put_object raises on failure and nothing catches it: the handler ends.
NextAfterPutIgnoringFailure(ok) == "insert"
NextAfterPut(ok) == IF ok THEN "insert" ELSE "error"

\* conn.execute(INSERT ...) raises on failure and nothing catches it.
NextAfterInsertIgnoringFailure(ok) == "publish"
NextAfterInsert(ok) == IF ok THEN "publish" ELSE "error"

\* nc.publish raises on failure; otherwise {"id", "status": "queued"} is returned.
NextAfterPublish(ok) == IF ok THEN "queued" ELSE "error"

\* INSERT INTO documents (id, filename): processed DEFAULT FALSE, text_preview NULL
NewRow(filename) ==
    [filename |-> filename, processed |-> FALSE, text_preview |-> Null]

\* uuid.uuid4(), await file.read(), s3.put_object(...)
UploadPut(f, c, ok) ==
    /\ nextId <= MaxDocs
    /\ MayFail(ok)
    /\ LET d == nextId IN
        /\ nextId' = nextId + 1
        /\ objects' = IF ok THEN [objects EXCEPT ![d] = c] ELSE objects
        /\ upl' = [upl EXCEPT ![d] =
                     [pc |-> NextAfterPut(ok), filename |-> f, content |-> c]]
        /\ fault' = Record(d, ok, "put")
    /\ nfaults' = Injected(ok)
    /\ UNCHANGED searchOnly
    /\ UNCHANGED aux
    /\ UNCHANGED <<rows, inbox, vindex, wk, published, deliveredTo, okRuns>>

\* async with db_pool.acquire() as conn: await conn.execute(INSERT ...)
UploadInsert(d, ok) ==
    /\ upl[d].pc = "insert"
    /\ MayFail(ok)
    /\ rows' = IF ok THEN [rows EXCEPT ![d] = NewRow(upl[d].filename)] ELSE rows
    /\ upl' = [upl EXCEPT ![d].pc = NextAfterInsert(ok)]
    /\ fault' = Record(d, ok, "insert")
    /\ nfaults' = Injected(ok)
    /\ UNCHANGED searchOnly
    /\ UNCHANGED aux
    /\ UNCHANGED <<objects, inbox, vindex, nextId, wk, published, deliveredTo,
                   okRuns>>

\* A core NATS publish is handed to every subscription of the subject: the
\* workers subscribe without a queue group.
Subscribers == {w \in Workers : proc[w] = "serving"}

\* await nc.publish("document.process", payload); return {"id", "status"}
UploadPublish(d, ok) ==
    /\ upl[d].pc = "publish"
    /\ MayFail(ok)
    /\ inbox' = IF ok
                THEN [w \in Workers |->
                        IF w \in Subscribers
                        THEN Append(inbox[w], TaskPayload(d, upl[d].filename))
                        ELSE inbox[w]]
                ELSE inbox
    /\ published' = IF ok THEN published \cup {d} ELSE published
    /\ upl' = [upl EXCEPT ![d].pc = NextAfterPublish(ok)]
    /\ fault' = Record(d, ok, "publish")
    /\ nfaults' = Injected(ok)
    /\ UNCHANGED searchOnly
    /\ UNCHANGED aux
    /\ UNCHANGED <<objects, rows, vindex, nextId, wk, deliveredTo, okRuns>>

\* ------------------------------------------------------- worker: the pipeline

\* Qdrant's upsert: the point stored under an id is replaced, not added to.
AppendPoint(stored, p) == Append(stored, p)
UpsertPoint(stored, p) == <<p>>

\* await client.put(...): a transport failure raises; the response is not
\* inspected (no raise_for_status), so an error response continues to the UPDATE.
AfterUpsertReply(outcome) == IF outcome = "exception" THEN "raise" ELSE "commit"

\* UPDATE documents SET processed = true, text_preview = $1 WHERE id = $2
UpdateToggling(table, d, preview) ==
    IF table[d] = NoRow THEN table
    ELSE [table EXCEPT ![d] = [@ EXCEPT !.processed = ~@,
                                         !.text_preview = preview]]
UpdateProcessed(table, d, preview) ==
    IF table[d] = NoRow THEN table
    ELSE [table EXCEPT ![d] = [@ EXCEPT !.processed = TRUE,
                                         !.text_preview = preview]]

\* The callback returns or raises: nats-py logs an exception of the callback
\* and hands the next pending message to it.  Nothing is written.
SubscriptionStopped == [IdleWorker EXCEPT !.pc = "stopped"]
EndOfCallback == IdleWorker

\* json.loads(msg.data.decode()) succeeds and data['id'] is there.
WellFormed(msg) == "id" \in DOMAIN msg

\* data['filename'], read while the PUT request is built
HasFilename(msg) == "filename" \in DOMAIN msg

\* the subscription awaits cb(msg) before it takes the next message
DispatchWhileBusy(w) == wk[w].pc \in {"idle", "connecting"}
MayDispatch(w) == wk[w].pc = "idle"

\* get_model(): if model is None: model = SentenceTransformer(...)
AlwaysLoad(m) == TRUE
NeedsLoad(m) == m = 0

\* try: ... finally: await conn.close(), on the path that commits ("commit")
\* and on every path that raises inside the try ("raise")
ClosedOnlyAfterCommit(path, n) == IF path = "commit" THEN n - 1 ELSE n
ConnsAfterTry(path, n) == n - 1

\* nats-py takes the next pending message of the subscription and awaits
\* cb(msg): json.loads(msg.data.decode()), data['id'], asyncpg.connect(...) begun.
\* A payload that does not decode, or has no id, raises before the connect.
Deliver(w) ==
    /\ proc[w] = "serving"
    /\ MayDispatch(w)
    /\ inbox[w] # <<>>
    /\ LET msg == Head(inbox[w]) IN
        IF WellFormed(msg)
        THEN /\ wk' = [wk EXCEPT ![w] = [IdleWorker EXCEPT !.pc = "connecting",
                                                           !.msg = msg]]
             /\ deliveredTo' = [deliveredTo EXCEPT ![msg.id] = @ \cup {w}]
             /\ bad' = bad
        ELSE /\ wk' = [wk EXCEPT ![w] = EndOfCallback]
             /\ deliveredTo' = deliveredTo
             /\ bad' = [bad EXCEPT ![w] = @ + 1]
    /\ inbox' = [inbox EXCEPT ![w] = Tail(@)]
    /\ UNCHANGED searchOnly
    /\ UNCHANGED <<objects, rows, vindex, upl, nextId, published, okRuns,
                   fault, nfaults>>
    /\ UNCHANGED <<procVars, conns, afterBad, ntasks, noName, bootVars,
                   statusVars>>

ConnectOutcomes == {"ok", "connect_failed", "fetch_failed"}

\* asyncpg.connect returns (or raises, outside the try); then, without
\* suspension: s3.get_object, the text, get_model() and the embedding, and the
\* PUT is built and sent.  A failed get_object, or a task without filename,
\* raises inside the try: finally closes the connection.
Connected(w, outcome) ==
    /\ wk[w].pc = "connecting"
    /\ MayFail(outcome = "ok")
    /\ LET d == wk[w].msg.id
           sent == outcome = "ok" /\ HasFilename(wk[w].msg)
           opened == IF outcome = "connect_failed" THEN conns[w]
                     ELSE conns[w] + 1 IN
        /\ outcome = "ok" => objects[d] # NoObj
        /\ wk' = [wk EXCEPT ![w] =
                    IF sent
                    THEN [@ EXCEPT !.pc = "upserting", !.conn = TRUE,
                                   !.text = ExtractText(objects[d])]
                    ELSE EndOfCallback]
        /\ conns' = [conns EXCEPT ![w] =
                       IF sent \/ outcome = "connect_failed" THEN opened
                       ELSE ConnsAfterTry("raise", opened)]
        /\ model' = IF outcome = "ok" /\ NeedsLoad(model[w])
                    THEN [model EXCEPT ![w] = loads[w] + 1] ELSE model
        /\ loads' = IF outcome = "ok" /\ NeedsLoad(model[w])
                    THEN [loads EXCEPT ![w] = @ + 1] ELSE loads
        /\ fault' = Record(d, sent \/ outcome = "connect_failed", "pipeline")
    /\ nfaults' = Injected(outcome = "ok")
    /\ UNCHANGED searchOnly
    /\ UNCHANGED <<objects, rows, inbox, vindex, upl, nextId, published,
                   deliveredTo, okRuns>>
    /\ UNCHANGED <<proc, bad, afterBad, ntasks, noName, bootVars, statusVars>>

UpsertOutcomes == {"ok", "error_response", "exception"}

\* The Vector Index answers the PUT: it stores the point ("ok"), refuses it
\* with an error response, or the request fails in transport (exception).
UpsertReply(w, outcome) ==
    /\ wk[w].pc = "upserting"
    /\ MayFail(outcome = "ok")
    /\ LET d == wk[w].msg.id
           p == Point(d, wk[w].text, wk[w].msg.filename) IN
        /\ vindex' = IF outcome = "ok"
                     THEN [vindex EXCEPT ![d] = UpsertPoint(@, p)]
                     ELSE vindex
        /\ wk' = [wk EXCEPT ![w] =
                    IF AfterUpsertReply(outcome) = "commit"
                    THEN [@ EXCEPT !.pc = "committing",
                                   !.upserted = (outcome = "ok")]
                    ELSE EndOfCallback]
        /\ conns' = IF AfterUpsertReply(outcome) = "commit" THEN conns
                    ELSE [conns EXCEPT ![w] = ConnsAfterTry("raise", @)]
        /\ fault' = Record(d, outcome # "exception", "pipeline")
    /\ nfaults' = Injected(outcome = "ok")
    /\ UNCHANGED searchOnly
    /\ UNCHANGED <<objects, rows, inbox, upl, nextId, published, deliveredTo,
                   okRuns>>
    /\ UNCHANGED <<procVars, bad, afterBad, ntasks, noName, bootVars,
                   statusVars>>

\* await conn.execute(UPDATE ...), then finally: await conn.close()
Commit(w, ok) ==
    /\ wk[w].pc = "committing"
    /\ MayFail(ok)
    /\ LET d == wk[w].msg.id IN
        /\ rows' = IF ok THEN UpdateProcessed(rows, d, Preview(wk[w].text))
                   ELSE rows
        /\ okRuns' = IF ok /\ wk[w].upserted
                     THEN [okRuns EXCEPT ![d] = @ + 1] ELSE okRuns
        /\ afterBad' = IF ok /\ bad[w] > 0 THEN afterBad \cup {d} ELSE afterBad
        /\ fault' = Record(d, ok, "pipeline")
    /\ conns' = [conns EXCEPT ![w] =
                   ConnsAfterTry(IF ok THEN "commit" ELSE "raise", @)]
    /\ wk' = [wk EXCEPT ![w] = EndOfCallback]
    /\ nfaults' = Injected(ok)
    /\ UNCHANGED searchOnly
    /\ UNCHANGED <<objects, inbox, vindex, upl, nextId, published, deliveredTo>>
    /\ UNCHANGED <<procVars, bad, ntasks, noName, bootVars, statusVars>>

\* --------------------------------------------------- intake: cached search

Queries == {"carbon emissions", "water"}
Searches == 1..MaxSearches

NoEntry == [absent |-> TRUE]

\* cache_key = f"search:{query}"
CacheKey(q) == <<"search:", q>>
CacheKeys == {CacheKey(q) : q \in Queries}

\* the body of the search request: "limit": 3
SearchLimit == 3
\* redis_client.setex(cache_key, 300, ...)
CacheTTL == 300

\* the clock advances by a fraction of the TTL
TickSeconds == CacheTTL \div TicksPerTTL

\* The ids of the points the index holds, in id order.
RECURSIVE StoredFrom(_)
StoredFrom(d) ==
    IF d > MaxDocs THEN <<>>
    ELSE (IF vindex[d] # <<>> THEN <<d>> ELSE <<>>) \o StoredFrom(d + 1)

\* The answer of the Vector Index to the search request: the dummy query
\* vector matches every point, at most "limit" of them are returned.
IndexResponse(kind) ==
    IF kind = "ok"
    THEN [result |-> SubSeq(StoredFrom(1), 1,
                            Min(Len(StoredFrom(1)), SearchLimit))]
    ELSE [status |-> "error"]

\* response.json().get("result", [])
GetResult(body) == IF "result" \in DOMAIN body THEN body.result ELSE <<>>

\* result = {"query": query, "results": ...}
SearchResult(q, body) == [query |-> q, results |-> GetResult(body)]

\* json.dumps(result): the text as a sequence of tokens
Dumps(r) ==
    <<"{", "query", r.query, "results", "[">>
        \o [i \in 1..Len(r.results) |-> ToString(r.results[i])]
        \o <<"]", "}">>

ParseInt(tok) == CHOOSE n \in 0..MaxDocs : ToString(n) = tok

\* json.loads(cached)
LoadsDroppingResults(text) == [query |-> text[3], results |-> <<>>]
Loads(text) ==
    [query |-> text[3],
     results |-> [i \in 1..(Len(text) - 7) |-> ParseInt(text[5 + i])]]

\* the response body FastAPI writes for a returned dict
Render(ret) == Dumps(ret)

\* An entry is live until its TTL has elapsed (Redis expires the key).
Live(entry) == entry # NoEntry /\ now < entry.expires

\* redis_client.get(cache_key): None for a missing or expired key
CacheGet(q) ==
    IF Live(cache[CacheKey(q)]) THEN [nil |-> FALSE, data |-> cache[CacheKey(q)].value]
    ELSE [nil |-> TRUE]

\* if cached:  (None and the empty string are falsy)
Truthy(reply) == ~reply.nil /\ reply.data # <<>>

IdleSearch ==
    [pc |-> "idle", query |-> "", status |-> "", out |-> <<>>,
     hit |-> FALSE, contacted |-> FALSE, served |-> <<>>, live |-> FALSE,
     idxUp |-> TRUE]

InitSearch ==
    /\ cache = [k \in CacheKeys |-> NoEntry]
    /\ now = 0
    /\ indexUp = TRUE
    /\ cacheUp = TRUE
    /\ sr = [s \in Searches |-> IdleSearch]

\* search(query) up to its first suspension (requests are numbered in the
\* order of their arrival): redis get (raises when Redis is
\* unreachable), the cached value returned on a hit, else the POST is sent.
SearchBegin(s, q) ==
    /\ sr[s].pc = "idle"
    /\ \A t \in 1..(s - 1) : sr[t].pc # "idle"
    /\ LET reply == CacheGet(q)
           base == [IdleSearch EXCEPT !.query = q, !.idxUp = indexUp,
                                      !.live = cacheUp /\ Live(cache[CacheKey(q)])] IN
        sr' = [sr EXCEPT ![s] =
                 IF ~cacheUp
                 THEN [base EXCEPT !.pc = "done", !.status = "error"]
                 ELSE IF Truthy(reply)
                 THEN [base EXCEPT !.pc = "done", !.status = "ok",
                                   !.hit = TRUE,
                                   !.out = Render(Loads(reply.data)),
                                   !.served = cache[CacheKey(q)].origin]
                 ELSE [base EXCEPT !.pc = "waiting", !.contacted = TRUE]]
    /\ UNCHANGED <<cache, now, indexUp, cacheUp, vindex>>
    /\ UNCHANGED ingestOnly
    /\ UNCHANGED aux

ResponseKinds == {"ok", "error_response"}

\* setex is reached when the POST returned a response, and succeeds when
\* Redis is reachable; an exception of the POST or of setex ends the handler.
StoredDespiteIndexError(idx, cch) == cch
ReplyStored(idx, cch) == idx /\ cch

\* The POST returns (or raises when the index is unreachable); then, without
\* suspension: the result is built, cached with setex (raises when Redis is
\* unreachable) and returned.
SearchReply(s, kind) ==
    /\ sr[s].pc = "waiting"
    /\ LET q == sr[s].query
           result == SearchResult(q, IndexResponse(kind))
           stored == ReplyStored(indexUp, cacheUp) IN
        /\ sr' = [sr EXCEPT ![s] =
                    [@ EXCEPT !.pc = "done",
                              !.idxUp = @ /\ indexUp,
                              !.status = IF stored THEN "ok" ELSE "error",
                              !.out = IF stored THEN Render(result) ELSE <<>>]]
        /\ cache' = IF stored
                    THEN [cache EXCEPT ![CacheKey(q)] =
                            [value |-> Dumps(result),
                             expires |-> now + CacheTTL,
                             origin |-> Render(result)]]
                    ELSE cache
    /\ UNCHANGED <<now, indexUp, cacheUp, vindex>>
    /\ UNCHANGED ingestOnly
    /\ UNCHANGED aux

\* Time passes.
Tick ==
    /\ now < MaxTicks * TickSeconds
    /\ now' = now + TickSeconds
    /\ UNCHANGED <<cache, indexUp, cacheUp, sr, vindex>>
    /\ UNCHANGED ingestOnly
    /\ UNCHANGED aux

\* The Vector Index becomes unreachable or reachable again.
IndexToggle ==
    /\ indexUp' = ~indexUp
    /\ UNCHANGED <<cache, now, cacheUp, sr, vindex>>
    /\ UNCHANGED ingestOnly
    /\ UNCHANGED aux

\* Redis becomes unreachable or reachable again.
CacheToggle ==
    /\ cacheUp' = ~cacheUp
    /\ UNCHANGED <<cache, now, indexUp, sr, vindex>>
    /\ UNCHANGED ingestOnly
    /\ UNCHANGED aux

\* Redis loses all its entries (restart, eviction).
CacheFlush ==
    /\ \E k \in CacheKeys : cache[k] # NoEntry
    /\ cache' = [k \in CacheKeys |-> NoEntry]
    /\ UNCHANGED <<now, indexUp, cacheUp, sr, vindex>>
    /\ UNCHANGED ingestOnly
    /\ UNCHANGED aux

\* A worker's upsert lands in the index while searches run (documents are
\* indexed in the order of their ids).
IndexUpsert(d, c) ==
    /\ indexUp
    /\ vindex[d] = <<>>
    /\ \A e \in 1..(d - 1) : vindex[e] # <<>>
    /\ vindex' = [vindex EXCEPT ![d] =
                    UpsertPoint(@, Point(d, ExtractText(c), "report.pdf"))]
    /\ UNCHANGED <<cache, now, indexUp, cacheUp, sr>>
    /\ UNCHANGED ingestOnly
    /\ UNCHANGED aux

NextSearch ==
    \/ \E s \in Searches, q \in Queries : SearchBegin(s, q)
    \/ \E s \in Searches, k \in ResponseKinds : SearchReply(s, k)
    \/ Tick
    \/ IndexToggle
    \/ CacheToggle
    \/ CacheFlush
    \/ \E d \in Docs : \E c \in Contents : IndexUpsert(d, c)

\* ------------------------------------------------------ worker: main()

\* the worker process that the task specification runs
TaskWorkers == {1}

\* get_model(): the global is set on the first call and returned afterwards
WorkerPreload(w) ==
    /\ proc[w] = "boot"
    /\ model' = IF NeedsLoad(model[w])
                THEN [model EXCEPT ![w] = loads[w] + 1] ELSE model
    /\ loads' = IF NeedsLoad(model[w])
                THEN [loads EXCEPT ![w] = @ + 1] ELSE loads
    /\ proc' = [proc EXCEPT ![w] = "connect"]
    /\ UNCHANGED <<ingestVars, searchOnly, taskVars, bootVars, statusVars>>

\* nc = await nats.connect(...): one attempt, an exception ends main();
\* then nc.subscribe("document.process", cb=process_document)
WorkerConnect(w) ==
    /\ proc[w] = "connect"
    /\ proc' = [proc EXCEPT ![w] = IF deps["nats"] THEN "serving" ELSE "fatal"]
    /\ UNCHANGED <<model, loads>>
    /\ UNCHANGED <<ingestVars, searchOnly, taskVars, bootVars, statusVars>>

\* the connections a serving worker has made: nats.connect in main(); the
\* asyncpg connection is made inside process_document, per task
WorkerEstablished(w) == IF proc[w] = "serving" THEN {"nats"} ELSE {}

\* the external connections the worker opens
WorkerConnections == {"nats", "postgresql"}

\* ------------------------------------------- tasks of another publisher

\* What a client of the channel can publish on document.process: a task with
\* both keys, with the id only, without the id, or bytes that are not JSON.
ForeignPayloads ==
    { TaskPayload(d, f) : d \in Docs, f \in Filenames }
        \cup { [id |-> d] : d \in Docs }
        \cup { [filename |-> f] : f \in Filenames }
        \cup { [raw |-> "not json"] }

InjectTask(p) ==
    /\ ntasks < MaxTasks
    /\ ntasks' = ntasks + 1
    /\ inbox' = [w \in Workers |->
                   IF w \in Subscribers THEN Append(inbox[w], p) ELSE inbox[w]]
    /\ noName' = IF WellFormed(p) /\ ~HasFilename(p)
                 THEN noName \cup {p.id} ELSE noName
    /\ UNCHANGED <<objects, rows, vindex, upl, nextId, wk, published,
                   deliveredTo, okRuns, fault, nfaults>>
    /\ UNCHANGED <<conns, bad, afterBad>>
    /\ UNCHANGED <<searchOnly, procVars, bootVars, statusVars>>

\* -------------------------------------------------------- intake: startup()

\* for attempt in range(n): try connect; except: raise when attempt == n - 1,
\* else sleep and try again
Attempt(ok, attempt, ceiling) ==
    IF ok THEN "next" ELSE IF attempt = ceiling - 1 THEN "raise" ELSE "again"

\* the connections startup() makes before the application serves
IntakeConnections == {"nats", "postgresql", "cache"}

BootStep(dep, ceiling, nextPc) ==
    /\ boot.pc = dep
    /\ LET r == Attempt(deps[dep], boot.attempt, ceiling) IN
        boot' = IF r = "next"
                THEN [pc |-> nextPc, attempt |-> 0,
                      est |-> boot.est \cup {dep}]
                ELSE IF r = "raise"
                THEN [boot EXCEPT !.pc = "fatal"]
                ELSE [boot EXCEPT !.attempt = @ + 1]
    /\ UNCHANGED <<ingestVars, searchOnly, procVars, taskVars, statusVars>>

\* nc = await nats.connect(...), for attempt in range(5)
BootNats == BootStep("nats", NatsAttempts, "postgresql")

\* db_pool = await asyncpg.create_pool(...), for attempt in range(10); then
\* s3 = boto3.client(...), which contacts nothing
BootDb == BootStep("postgresql", DbAttempts, "cache")

\* redis_client = redis.Redis(...); redis_client.ping(), for attempt in range(5)
BootRedis == BootStep("cache", RedisAttempts, "schema")

\* CREATE TABLE IF NOT EXISTS documents: one attempt, an exception ends startup
BootSchema ==
    /\ boot.pc = "schema"
    /\ boot' = [boot EXCEPT !.pc = IF deps["postgresql"] THEN "serving"
                                   ELSE "fatal"]
    /\ UNCHANGED <<ingestVars, searchOnly, procVars, taskVars, statusVars>>

\* ---------------------------------------------------------- intake: status()

\* the keys of the report
DepNames == {"nats", "postgresql", "qdrant", "storage", "cache"}

\* a dependency goes down or comes back
DepToggle(dep) ==
    /\ deps' = [deps EXCEPT ![dep] = ~@]
    /\ st' = st
    /\ UNCHANGED <<ingestVars, searchOnly, procVars, taskVars, bootVars>>

\* 'connected' if nc and nc.is_connected else 'disconnected' cannot raise;
\* the probe of each other dependency raises when the dependency is down.
Raises(dep, up) == dep # "nats" /\ ~up

\* the probes that stand inside try: ... except: ...
GuardedButStorage(dep) == dep \in {"postgresql", "qdrant", "cache"}
Guarded(dep) == dep \in {"postgresql", "qdrant", "storage", "cache"}

Good(dep) == IF dep = "nats" THEN "connected" ELSE "healthy"
Bad(dep) == IF dep = "nats" THEN "disconnected" ELSE "unhealthy"

\* one probe, run on the report so far
RECURSIVE ProbeAll(_, _)
ProbeAll(order, r) ==
    IF order = <<>> \/ r.raised THEN r
    ELSE LET dep == Head(order)
             up == deps[dep] IN
         ProbeAll(Tail(order),
            IF Raises(dep, up) /\ ~Guarded(dep)
            THEN [r EXCEPT !.raised = TRUE, !.met[dep] = "down"]
            ELSE [r EXCEPT !.services[dep] =
                               IF Raises(dep, up) \/ ~up THEN Bad(dep)
                               ELSE Good(dep),
                           !.met[dep] = IF up THEN "up" ELSE "down"])

IdleStatus == [pc |-> "idle", raised |-> FALSE,
               services |-> [dep \in DepNames |-> "unset"],
               met |-> [dep \in DepNames |-> "unset"]]

AfterProbes(r, nextPc) == [r EXCEPT !.pc = IF r.raised THEN "done" ELSE nextPc]

\* GET /status: services = {}, the NATS entry, db_pool.acquire() begun
StatusBegin ==
    /\ st.pc \in {"idle", "done"}
    /\ boot.pc = "serving"
    /\ st' = AfterProbes(ProbeAll(<<"nats">>, IdleStatus), "postgresql")
    /\ deps' = deps
    /\ UNCHANGED <<ingestVars, searchOnly, procVars, taskVars, bootVars>>

\* SELECT 1 answered or failed; the GET to Qdrant begun
StatusDb ==
    /\ st.pc = "postgresql"
    /\ st' = AfterProbes(ProbeAll(<<"postgresql">>, st), "qdrant")
    /\ deps' = deps
    /\ UNCHANGED <<ingestVars, searchOnly, procVars, taskVars, bootVars>>

\* the GET answered (any response) or failed; s3.list_buckets() and
\* redis_client.ping() run without suspension; the report is returned
StatusRest ==
    /\ st.pc = "qdrant"
    /\ st' = AfterProbes(ProbeAll(<<"qdrant", "storage", "cache">>, st), "done")
    /\ deps' = deps
    /\ UNCHANGED <<ingestVars, searchOnly, procVars, taskVars, bootVars>>

\* ------------------------------------------------------- the specifications

\* both services have started and every dependency is up
InitServing ==
    /\ proc = [w \in Workers |-> "serving"]
    /\ model = [w \in Workers |-> 1]
    /\ loads = [w \in Workers |-> 1]
    /\ boot = [pc |-> "serving", attempt |-> 0, est |-> IntakeConnections]

InitTaskVars ==
    /\ conns = [w \in Workers |-> 0]
    /\ bad = [w \in Workers |-> 0]
    /\ afterBad = {}
    /\ ntasks = 0
    /\ noName = {}

InitStatus ==
    /\ deps = [dep \in DepNames |-> TRUE]
    /\ st = IdleStatus

Init == InitIngest /\ InitSearch /\ InitServing /\ InitTaskVars /\ InitStatus

NextIngest ==
    \/ \E f \in Filenames, c \in Contents, ok \in BOOLEAN : UploadPut(f, c, ok)
    \/ \E d \in Docs, ok \in BOOLEAN : UploadInsert(d, ok)
    \/ \E d \in Docs, ok \in BOOLEAN : UploadPublish(d, ok)
    \/ \E w \in Workers : Deliver(w)
    \/ \E w \in Workers, o \in ConnectOutcomes : Connected(w, o)
    \/ \E w \in Workers, o \in UpsertOutcomes : UpsertReply(w, o)
    \/ \E w \in Workers, ok \in BOOLEAN : Commit(w, ok)

SpecIngest == Init /\ [][NextIngest]_vars

SpecSearch == Init /\ [][NextSearch]_vars

\* The documents of the task specification: bodies shorter than the preview,
\* between the preview and the extract, and longer than the extract.
SampleContents == << <<"x", 600>>, <<"E", 25>>, <<"y", 300>> >>
SampleContent(d) == SampleContents[((d - 1) % Len(SampleContents)) + 1]

\* Every document was uploaded before a worker subscribed (its task reached
\* no subscription); worker 1 starts, and another client publishes tasks.
InitTasks ==
    /\ objects = [d \in Docs |-> SampleContent(d)]
    /\ rows = [d \in Docs |-> NewRow("report.pdf")]
    /\ inbox = [w \in Workers |-> <<>>]
    /\ vindex = [d \in Docs |-> <<>>]
    /\ upl = [d \in Docs |-> [pc |-> NextAfterPublish(TRUE),
                              filename |-> "report.pdf",
                              content |-> SampleContent(d)]]
    /\ nextId = MaxDocs + 1
    /\ wk = [w \in Workers |-> IdleWorker]
    /\ published = Docs
    /\ deliveredTo = [d \in Docs |-> {}]
    /\ okRuns = [d \in Docs |-> 0]
    /\ fault = [d \in Docs |-> {}]
    /\ nfaults = 0
    /\ InitSearch
    /\ proc = [w \in Workers |-> "boot"]
    /\ model = [w \in Workers |-> 0]
    /\ loads = [w \in Workers |-> 0]
    /\ boot = [pc |-> "serving", attempt |-> 0, est |-> IntakeConnections]
    /\ InitTaskVars
    /\ InitStatus

NextTasks ==
    \/ \E w \in TaskWorkers : WorkerPreload(w)
    \/ \E w \in TaskWorkers : WorkerConnect(w)
    \/ \E p \in ForeignPayloads : InjectTask(p)
    \/ \E w \in TaskWorkers : Deliver(w)
    \/ \E w \in TaskWorkers, o \in ConnectOutcomes : Connected(w, o)
    \/ \E w \in TaskWorkers, o \in UpsertOutcomes : UpsertReply(w, o)
    \/ \E w \in TaskWorkers, ok \in BOOLEAN : Commit(w, ok)

SpecTasks == InitTasks /\ [][NextTasks]_vars

\* Both services start while the dependencies go down and come back.
InitStartup ==
    /\ InitIngest
    /\ InitSearch
    /\ proc = [w \in Workers |-> "boot"]
    /\ model = [w \in Workers |-> 0]
    /\ loads = [w \in Workers |-> 0]
    /\ boot = [pc |-> "nats", attempt |-> 0, est |-> {}]
    /\ InitTaskVars
    /\ InitStatus

NextStartup ==
    \/ BootNats
    \/ BootDb
    \/ BootRedis
    \/ BootSchema
    \/ \E w \in Workers : WorkerPreload(w)
    \/ \E w \in Workers : WorkerConnect(w)
    \/ \E dep \in DepNames : DepToggle(dep)

SpecStartup == InitStartup /\ [][NextStartup]_vars

\* The intake serves GET /status while the dependencies go down and come back.
NextStatus ==
    \/ StatusBegin
    \/ StatusDb
    \/ StatusRest
    \/ \E dep \in DepNames : DepToggle(dep)

SpecStatus == Init /\ [][NextStatus]_vars

Next == NextIngest \/ NextSearch \/ NextStatus

Spec == Init /\ [][Next]_vars

\* ------------------------------------------------- what a reader can observe

\* The row of d shows processed = true.
Processed(d) == rows[d] # NoRow /\ rows[d].processed

\* The Vector Index holds a record with the id of d.
HasVector(d) == \E i \in 1..Len(vindex[d]) : vindex[d][i].id = d

\* The status a row can express: the table has the boolean column processed
\* and no other status column.
StatusOf(row) == IF row.processed THEN "processed" ELSE "uploaded"

RecordedFailed(d) == rows[d] # NoRow /\ StatusOf(rows[d]) = "failed"

\* A worker is inside process_document for d, or a message for d is pending.
InProgress(d) == \E w \in Workers : wk[w].pc # "idle" /\ wk[w].msg.id = d
Pending(d) ==
    \E w \in Workers : \E i \in 1..Len(inbox[w]) :
        WellFormed(inbox[w][i]) /\ inbox[w][i].id = d

\* A pipeline run of d raised at the fetch or at a later step.
PipelineFailed(d) == "pipeline" \in fault[d]

\* --------------------------------------------------------------- the claims

\* C1: a document whose row shows processed = true has a vector record with
\* the same id in the Vector Index, whatever the index answered to the upsert.
C1_ProcessedHasVector == \A d \in Docs : Processed(d) => HasVector(d)

\* C2: every task published on the channel references a document id for which
\* a row already exists in the Metadata Store.
C2_NoOrphanTask ==
    /\ \A d \in published : rows[d] # NoRow
    /\ \A d \in Docs : (Pending(d) \/ InProgress(d)) => rows[d] # NoRow

\* C2 witness: a task was published while another upload lost its insert.
C2_Witness ==
    \E d \in published : \E e \in Docs : e # d /\ "insert" \in fault[e]

\* The end state of a processed document: one point, built from the stored
\* bytes, and the row processed with the preview of the same text.
EndState(d) ==
    LET text == ExtractText(upl[d].content) IN
    /\ vindex[d] = <<Point(d, text, upl[d].filename)>>
    /\ rows[d] = [filename |-> upl[d].filename, processed |-> TRUE,
                  text_preview |-> Preview(text)]

\* C3: once one pipeline run of a document has upserted and committed, the
\* Metadata Store row and the Vector Index hold the end state of that one run,
\* during and after every further run (sequential or on another worker): one
\* vector record for the id, the same processed flag and text_preview.
C3_Idempotent == \A d \in Docs : okRuns[d] >= 1 => EndState(d)

\* C3 witness: two complete runs of the same document have committed.
C3_Witness == \E d \in Docs : okRuns[d] >= 2 /\ ~InProgress(d)

\* C4: a published task leaves the channel only with a terminal outcome
\* recorded: it is pending, being processed, or its row is processed or failed.
C4_NoTaskLost ==
    \A d \in published :
        Pending(d) \/ InProgress(d) \/ Processed(d) \/ RecordedFailed(d)

\* C5: a document whose pipeline failed at the fetch or later (and that no
\* other run has processed) has a row that records status failed.
C5_FailureRecorded ==
    \A d \in Docs : (PipelineFailed(d) /\ ~Processed(d)) => RecordedFailed(d)

\* C6: each published task is delivered to one worker instance only.
C6_OneInstancePerTask == \A d \in Docs : Cardinality(deliveredTo[d]) <= 1

\* C7: an upload whose Object Store write failed created no row, published no
\* task and did not answer queued.
C7_PutFailureAborts ==
    \A d \in Docs :
        "put" \in fault[d] =>
            /\ rows[d] = NoRow
            /\ d \notin published
            /\ ~Pending(d) /\ ~InProgress(d)
            /\ upl[d].pc = "error"

\* C7 witness: an upload failed at the Object Store write while another one
\* went on to its insert.
C7_Witness ==
    \E d \in Docs : "put" \in fault[d] /\ \E e \in Docs : rows[e] # NoRow

\* C8: a document whose publish failed is never processed, and its stored row
\* differs from the row of a document that was published and awaits processing.
C8_StuckIsObservable ==
    \A d \in Docs :
        "publish" \in fault[d] =>
            /\ ~Processed(d)
            /\ \A e \in published : ~Processed(e) => rows[e] # rows[d]

\* C9: a search answered from the cache succeeds without contacting the
\* Vector Index and returns the cached value unmodified, which is the output
\* of the search that wrote the entry; with Redis reachable, a search that
\* finds a live entry for its query is answered from the cache.
C9_CacheHitServesCached ==
    \A s \in Searches :
        sr[s].pc = "done" =>
            /\ sr[s].hit =>
                /\ sr[s].status = "ok"
                /\ ~sr[s].contacted
                /\ sr[s].out = sr[s].served
            /\ sr[s].live => sr[s].hit

\* C9 witness: a search was answered from the cache, with a non-empty result
\* list, while the Vector Index was unreachable.
C9_Witness ==
    \E s \in Searches :
        /\ sr[s].pc = "done" /\ sr[s].hit /\ ~sr[s].idxUp
        /\ Loads(sr[s].out).results # <<>>

\* C10: a search during which the Vector Index was reachable returns a
\* successful result, whatever the state of the cache.
C10_CacheOnlyOptimization ==
    \A s \in Searches :
        (sr[s].pc = "done" /\ sr[s].idxUp) => sr[s].status = "ok"

\* the dependencies a returned report was probed down on
DownAtProbe == {dep \in DepNames : st.met[dep] = "down"}
MarkedBad == {dep \in DepNames : st.services[dep] = Bad(dep)}

\* C11: status() returns a report and never raises, whatever dependencies are
\* down; each entry of the report depends only on the state its own probe
\* met (good when up, unhealthy or disconnected when down), so that with
\* exactly one dependency down, that one and no other is marked.
C11_HealthIsolation ==
    st.pc = "done" =>
        /\ ~st.raised
        /\ \A dep \in DepNames :
              st.services[dep] = IF st.met[dep] = "up" THEN Good(dep)
                                 ELSE Bad(dep)
        /\ \A dep \in DepNames : DownAtProbe = {dep} => MarkedBad = {dep}

\* a report returned with the Object Store alone down
C11_Witness ==
    /\ st.pc = "done"
    /\ ~st.raised
    /\ DownAtProbe = {"storage"}
    /\ st.services["storage"] = "unhealthy"
    /\ st.services["nats"] = "connected"

\* C12: a service that accepts requests or tasks has established every one
\* of its external connections, and a startup that ended fatally had used up
\* the attempt ceiling of a connection (or failed at the schema).
C12_StartupSequencing ==
    /\ boot.pc = "serving" => IntakeConnections \subseteq boot.est
    /\ boot.pc = "fatal" /\ IntakeConnections \ boot.est # {} =>
          boot.attempt = (CASE "nats" \notin boot.est -> NatsAttempts
                            [] "postgresql" \notin boot.est -> DbAttempts
                            [] OTHER -> RedisAttempts) - 1
    /\ \A w \in Workers :
          proc[w] = "serving" => WorkerConnections \subseteq WorkerEstablished(w)

\* a task with the id of d and no filename was published and consumed
IdOnlyTaskConsumed(d) == d \in noName /\ ~Pending(d) /\ ~InProgress(d)

\* C13: with no fault injected, a task that carries the id of a stored
\* document and no filename is processed: once consumed, the document is
\* processed and has its vector.
C13_IdOnlyTaskProcessed ==
    nfaults = 0 =>
        \A d \in Docs : IdOnlyTaskConsumed(d) => Processed(d) /\ HasVector(d)

\* the text_preview of d is a prefix of at most PreviewLimit characters of
\* the text extracted from the stored object of d
PreviewOfExtract(d) ==
    LET pv == rows[d].text_preview
        text == ExtractText(objects[d]) IN
    /\ pv # Null
    /\ pv[1] = text[1]
    /\ pv[2] <= PreviewLimit
    /\ pv[2] = Min(text[2], PreviewLimit)

\* C14: a row that is not processed has an empty (NULL) text_preview; a row
\* that is processed has a preview of at most 200 characters taken from the
\* extracted text; a document whose task was consumed without failure is
\* processed.
C14_PreviewFollowsProcessed ==
    \A d \in Docs :
        rows[d] # NoRow =>
            /\ ~rows[d].processed => rows[d].text_preview = Null
            /\ rows[d].processed => PreviewOfExtract(d)
            /\ okRuns[d] >= 1 => rows[d].processed

\* processed documents whose bodies are longer and shorter than the preview,
\* next to one not yet processed
C14_Witness ==
    /\ \E d \in Docs : /\ Processed(d)
                       /\ objects[d][2] > ExtractLimit
                       /\ rows[d].text_preview[2] = PreviewLimit
    /\ \E d \in Docs : /\ Processed(d)
                       /\ objects[d][2] < PreviewLimit
                       /\ rows[d].text_preview = objects[d]

\* C15: the step in which a worker's callback raises on a malformed payload
\* (not JSON, or no id) changes no store and opens no connection, takes the
\* message off the subscription without putting it back, and leaves the
\* worker subscribed and idle, so that it takes the tasks that follow.
C15_MalformedDropped ==
    [][\A w \in Workers :
          bad'[w] > bad[w] =>
              /\ rows' = rows /\ objects' = objects /\ vindex' = vindex
              /\ conns' = conns
              /\ inbox'[w] = Tail(inbox[w])
              /\ wk'[w].pc = "idle"
              /\ proc'[w] = "serving"]_vars

\* a worker that raised on a malformed message has committed a later task
C15_Witness == \E d \in afterBad : Processed(d) /\ bad[1] >= 1

\* C16: a worker process constructs the embedding model at most once, and
\* from the preload on every get_model() returns that one instance.
C16_ModelLoadedOnce ==
    \A w \in Workers :
        /\ loads[w] <= 1
        /\ proc[w] \in {"connect", "serving"} => model[w] = 1 /\ loads[w] = 1

\* the preloaded worker has run get_model() in a task handler as well
C16_Witness ==
    /\ loads[1] = 1
    /\ model[1] = 1
    /\ \E d \in Docs : okRuns[d] >= 1 /\ 1 \in deliveredTo[d]

\* C17: while a worker is inside process_document for one task, no other
\* message is taken off its subscription.
C17_OneTaskAtATime ==
    [][\A w \in Workers :
          wk[w].pc # "idle" => Len(inbox'[w]) >= Len(inbox[w])]_vars

\* a second task waits while the first is suspended in the callback
C17_Witness == wk[1].pc = "upserting" /\ Len(inbox[1]) >= 1

\* C18: a row is created with processed = false, is never removed, and once
\* processed = true it stays true.
C18_ProcessedMonotonic ==
    [][\A d \in Docs :
          /\ rows[d] # NoRow => rows'[d] # NoRow
          /\ (rows[d] = NoRow /\ rows'[d] # NoRow) => ~rows'[d].processed
          /\ (rows[d] # NoRow /\ rows[d].processed) => rows'[d].processed]_vars

\* a processed document whose task ran on both workers, one run failing
C18_Witness ==
    \E d \in Docs : /\ Processed(d)
                    /\ deliveredTo[d] = Workers
                    /\ PipelineFailed(d)
                    /\ ~InProgress(d)

\* C19: a search that missed the cache and whose index request failed in
\* transport leaves the cache unchanged; an entry is written only in the step
\* in which the index has answered that search; a search that finds no live
\* entry for its query contacts the index.
C19_FailedSearchNotCached ==
    [][/\ \A s \in Searches :
             (sr[s].pc = "waiting" /\ sr'[s].pc = "done" /\ ~indexUp)
                 => cache' = cache
       /\ \A k \in CacheKeys :
             (cache'[k] # cache[k] /\ cache'[k] # NoEntry) =>
                 /\ indexUp
                 /\ \E s \in Searches : /\ sr[s].pc = "waiting"
                                        /\ sr'[s].pc = "done"
                                        /\ CacheKey(sr[s].query) = k
       /\ \A s \in Searches :
             (/\ sr[s].pc = "idle" /\ sr'[s].pc # "idle"
              /\ cacheUp /\ ~Live(cache[CacheKey(sr'[s].query)]))
                 => sr'[s].contacted]_vars

\* a search failed at the index, nothing is cached for its query, and the
\* next search with that query has contacted the index
C19_Witness ==
    \E s, t \in Searches :
        /\ s < t
        /\ sr[s].query = sr[t].query
        /\ sr[s].pc = "done" /\ sr[s].contacted /\ sr[s].status = "error"
        /\ ~sr[s].idxUp
        /\ sr[t].contacted /\ ~sr[t].hit

\* C20: a worker holds one Metadata Store connection while it is between the
\* connect and the end of the try block, and none otherwise: whichever way
\* the handling of a task ended, by commit or by an exception of the fetch,
\* the embedding, the upsert or the commit, the connection was closed.
C20_ConnectionClosed ==
    \A w \in Workers :
        conns[w] = IF wk[w].pc \in {"upserting", "committing"} THEN 1 ELSE 0

\* between tasks, after one task committed and another raised inside the try
C20_Witness ==
    /\ wk[1].pc = "idle"
    /\ conns[1] = 0
    /\ \E d \in Docs : okRuns[d] >= 1
    /\ \E d \in Docs : PipelineFailed(d)

====
